---------------------------- MODULE Spec2Model ----------------------------
(***************************************************************************)
(* nero-cli: the installer run (nero), its version resolvers, the          *)
(* installation record (load_config / save_config / update_config) and     *)
(* cleanup, modelled from src/nero_cli/cli.py and src/nero_cli/__main__.py. *)
(*                                                                         *)
(* Python strings are sequences of one-character strings, so that strip(), *)
(* lower(), lstrip("v") and the JSON text of the record are computed and   *)
(* not assumed.  Python's None is the one-element sequence None, which no  *)
(* typed or stored text equals.                                            *)
(***************************************************************************)
EXTENDS Naturals, Sequences, FiniteSets, TLC

VARIABLES
    CONFIG_FILE,   \* text of the record file on disk, or NoFile
    pc,            \* position of the run inside nero
    argv,          \* the Namespace as parse_args() returned it
    args,          \* the Namespace as the run has changed it (args.version)
    config,        \* the dict load_config() returned to nero
    log,           \* effects of the run, in order
    prompts,       \* questions put to the user in this run, in order
    inputs,        \* raw lines the user typed, parallel to prompts
    resolved,      \* last resolver call: its arguments and its result
    zip_path,      \* nero's local zip_path: None or the version it names
    zip_exists,    \* whether a file exists at zip_path
    temp_exists,   \* whether <tmp>/InvokeAI-Installer exists
    raised,        \* the exception in flight, or "none"
    before,        \* CONFIG_FILE when the run started
    saved,         \* the dict save_config wrote last
    call,          \* the function the unit driver called last, with its arguments
    ret            \* what that call returned

vars == <<CONFIG_FILE, pc, argv, args, config, log, prompts, inputs, resolved,
          zip_path, zip_exists, temp_exists, raised, before, saved, call, ret>>

---------------------------------------------------------------------------
(* Bounds of the model. *)

\* distinct instants datetime.now() can return
MaxTime == 2
\* PermissionErrors the file system may answer in a row, at most
MaxDenied == 6
\* length of the strings in the records the unit driver saves
MaxStrLen == 2
\* lines on standard input for one call of a function that reads it
MaxIn == 2

---------------------------------------------------------------------------
(* Python values. *)

None == <<"None">>
NoFile == <<"ENOENT">>

\* bool(s) for s a str or None
Truthy(s) == s # None /\ s # <<>>

Last(s) == s[Len(s)]

RECURSIVE lstrip(_, _)
lstrip(s, chars) ==
    IF s # <<>> /\ Head(s) \in chars THEN lstrip(Tail(s), chars) ELSE s

RECURSIVE rstrip(_, _)
rstrip(s, chars) ==
    IF s # <<>> /\ Last(s) \in chars THEN rstrip(SubSeq(s, 1, Len(s) - 1), chars) ELSE s

Whitespace == {" ", "\n", "\t"}

\* str.strip()
strip(s) == rstrip(lstrip(s, Whitespace), Whitespace)

lower_char(c) ==
    CASE c = "U" -> "u" [] c = "D" -> "d" [] c = "C" -> "c"
      [] c = "Y" -> "y" [] c = "N" -> "n" [] c = "V" -> "v" [] OTHER -> c

\* a choice compared without .lower()
lower_forgotten(s) == s

\* str.lower()
lower(s) == [i \in 1..Len(s) |-> lower_char(s[i])]

---------------------------------------------------------------------------
(* The installation record and its JSON text. *)

K_current == <<"c","u","r","r","e","n","t","_","v","e","r","s","i","o","n">>
K_previous == <<"p","r","e","v","i","o","u","s","_","v","e","r","s","i","o","n">>
K_last == <<"l","a","s","t","_","u","p","d","a","t","e">>

DefaultConfig ==
    [current_version |-> None, previous_version |-> None, last_update |-> None]

\* json.encoder: the escapes of a string's characters
escape_char(c) ==
    CASE c = "\"" -> <<"\\", "\"">>
      [] c = "\\" -> <<"\\", "\\">>
      [] c = "\n" -> <<"\\", "n">>
      [] c = "\t" -> <<"\\", "t">>
      [] OTHER -> <<c>>

RECURSIVE escape(_)
escape(s) == IF s = <<>> THEN <<>> ELSE escape_char(Head(s)) \o escape(Tail(s))

encode_string(s) == <<"\"">> \o escape(s) \o <<"\"">>

encode_value(v) == IF v = None THEN <<"n", "u", "l", "l">> ELSE encode_string(v)

Indent == <<"\n", " ", " ">>

encode_member(k, v) == Indent \o encode_string(k) \o <<":", " ">> \o encode_value(v)

\* json.dump(config, f, indent=2)
json_dump(c) ==
    <<"{">> \o encode_member(K_current, c.current_version) \o <<",">>
            \o encode_member(K_previous, c.previous_version) \o <<",">>
            \o encode_member(K_last, c.last_update) \o <<"\n", "}">>

RECURSIVE skip_ws(_, _)
skip_ws(t, i) == IF i <= Len(t) /\ t[i] \in Whitespace THEN skip_ws(t, i + 1) ELSE i

unescape_char(c) ==
    CASE c = "n" -> "\n" [] c = "t" -> "\t" [] OTHER -> c

\* json.decoder.scanstring: t[i] is the first character after the opening quote
RECURSIVE scanstring(_, _, _)
scanstring(t, i, acc) ==
    IF t[i] = "\"" THEN [val |-> acc, next |-> i + 1]
    ELSE IF t[i] = "\\" THEN scanstring(t, i + 2, Append(acc, unescape_char(t[i + 1])))
    ELSE scanstring(t, i + 1, Append(acc, t[i]))

\* json.scanner: a value of the record is a string or null
scan_value(t, i) ==
    IF t[i] = "\"" THEN scanstring(t, i + 1, <<>>)
    ELSE [val |-> None, next |-> i + 4]

\* json.decoder.JSONObject: the members after position i, as key/value pairs
RECURSIVE scan_members(_, _, _)
scan_members(t, i, acc) ==
    LET k == scanstring(t, skip_ws(t, i) + 1, <<>>)
        v == scan_value(t, skip_ws(t, skip_ws(t, k.next) + 1))
        j == skip_ws(t, v.next)
        got == Append(acc, <<k.val, v.val>>)
    IN  IF t[j] = "," THEN scan_members(t, j + 1, got) ELSE got

dict_get(members, k) ==
    LET hits == {n \in 1..Len(members) : members[n][1] = k}
    IN  members[CHOOSE n \in hits : \A m \in hits : m <= n][2]

\* json.load(f)
json_load(t) ==
    LET members == scan_members(t, skip_ws(t, 1) + 1, <<>>)
    IN  [current_version |-> dict_get(members, K_current),
         previous_version |-> dict_get(members, K_previous),
         last_update |-> dict_get(members, K_last)]

\* load_config(): the dict of the file, or the defaults when there is no file
load_config(file) == IF file # NoFile THEN json_load(file) ELSE DefaultConfig

\* save_config with the dry_run test inverted
save_config_inverted(file, c, dry_run) == IF dry_run THEN json_dump(c) ELSE file

\* save_config(config, dry_run): the file afterwards
save_config(file, c, dry_run) == IF dry_run THEN file ELSE json_dump(c)

\* datetime.now().isoformat()
isoformat(now) == <<"T", ToString(now)>>

\* update_config with its first two assignments in the other order
update_config_swapped(file, version, now) ==
    [load_config(file) EXCEPT !.previous_version = version,
                              !.current_version = version,
                              !.last_update = isoformat(now)]

\* update_config(version, ...): the dict it hands to save_config
update_config(file, version, now) ==
    [load_config(file) EXCEPT !.previous_version = load_config(file).current_version,
                              !.current_version = version,
                              !.last_update = isoformat(now)]

---------------------------------------------------------------------------
(* The environment: the release catalog and what the user may type. *)

Versions == {<<"1">>, <<"2">>}

\* tag_name of the latest release
Tags == {<<"v">> \o v : v \in Versions}

\* get_latest_version(): the tag without its leading v's
get_latest_version(tag_name) == lstrip(tag_name, {"v"})

\* what the user types at a choice or yes/no question
AnswerLines ==
    {<<"u">>, <<" ", "U">>, <<"D", " ">>, <<"c">>, <<"y">>, <<" ", "Y">>, <<"n">>, <<>>}

\* what the user types when asked for a version
VersionLines == {<<"1">>, <<" ", "2", " ">>, <<>>, <<" ">>}

\* standard input of one call: input() past its end raises EOFError
Stdin(first) ==
    UNION {{s \in [1..n -> AnswerLines \cup VersionLines] :
              \A i \in 1..n : s[i] \in (IF i = 1 THEN first ELSE VersionLines)} :
           n \in 0..MaxIn}

\* the values datetime.now() returns
Times == 1..MaxTime

---------------------------------------------------------------------------
(* The resolvers.  Each returns the value returned (result), the questions *)
(* it asked, in order (asked), and whether input() raised (eof).           *)

Answer(result, asked) == [result |-> result, asked |-> asked, eof |-> FALSE]
EOFError(asked) == [result |-> None, asked |-> asked, eof |-> TRUE]

\* prompt_user without .strip()
prompt_user_unstripped(line) == lower(line) = <<"y">>

\* prompt_user(question), given the line typed
prompt_user(line) == strip(lower(line)) = <<"y">>

\* check_and_display_config returning the version typed even when it is blank
check_and_display_config_blank(c, latest_version, inp) ==
    LET current_version == c.current_version
    IN  IF Truthy(current_version)
        THEN IF current_version # latest_version
             THEN IF Len(inp) < 1 THEN EOFError(<<"udc">>)
                  ELSE LET choice == lower(strip(inp[1]))
                       IN  IF choice = <<"u">> THEN Answer(latest_version, <<"udc">>)
                           ELSE IF choice = <<"d">>
                           THEN IF Len(inp) < 2 THEN EOFError(<<"udc", "downgrade">>)
                                ELSE LET downgrade_version == strip(inp[2])
                                     IN  Answer(downgrade_version, <<"udc", "downgrade">>)
                           ELSE Answer(None, <<"udc">>)
             ELSE Answer(None, <<>>)
        ELSE IF Len(inp) < 1 THEN EOFError(<<"yn">>)
             ELSE Answer(IF prompt_user(inp[1]) THEN latest_version ELSE None, <<"yn">>)

\* check_and_display_config(config), given the catalog's answer and stdin
check_and_display_config(c, latest_version, inp) ==
    LET current_version == c.current_version
    IN  IF Truthy(current_version)
        THEN IF current_version # latest_version
             THEN IF Len(inp) < 1 THEN EOFError(<<"udc">>)
                  ELSE LET choice == lower(strip(inp[1]))
                       IN  IF choice = <<"u">> THEN Answer(latest_version, <<"udc">>)
                           ELSE IF choice = <<"d">>
                           THEN IF Len(inp) < 2 THEN EOFError(<<"udc", "downgrade">>)
                                ELSE LET downgrade_version == strip(inp[2])
                                     IN  Answer(IF downgrade_version # <<>>
                                                THEN downgrade_version ELSE None,
                                                <<"udc", "downgrade">>)
                           ELSE Answer(None, <<"udc">>)
             ELSE Answer(None, <<>>)
        ELSE IF Len(inp) < 1 THEN EOFError(<<"yn">>)
             ELSE Answer(IF prompt_user(inp[1]) THEN latest_version ELSE None, <<"yn">>)

\* check_for_updates returning the latest version where it should fall through to None
check_for_updates_reinstalls(current_version, latest_version, inp) ==
    IF Truthy(current_version) /\ current_version = latest_version
    THEN Answer(latest_version, <<>>)
    ELSE check_and_display_config([DefaultConfig EXCEPT !.current_version = current_version],
                                  latest_version, inp)

\* check_for_updates(current_version), given the catalog's answer and stdin
check_for_updates(current_version, latest_version, inp) ==
    IF Truthy(current_version)
    THEN IF current_version # latest_version
         THEN IF Len(inp) < 1 THEN EOFError(<<"udc">>)
              ELSE LET choice == lower(strip(inp[1]))
                   IN  IF choice = <<"u">> THEN Answer(latest_version, <<"udc">>)
                       ELSE IF choice = <<"d">>
                       THEN IF Len(inp) < 2 THEN EOFError(<<"udc", "downgrade">>)
                            ELSE LET downgrade_version == strip(inp[2])
                                 IN  Answer(IF downgrade_version # <<>>
                                            THEN downgrade_version ELSE None,
                                            <<"udc", "downgrade">>)
                       ELSE Answer(None, <<"udc">>)
         ELSE Answer(None, <<>>)
    ELSE IF Len(inp) < 1 THEN EOFError(<<"yn">>)
         ELSE Answer(IF prompt_user(inp[1]) THEN latest_version ELSE None, <<"yn">>)

\* the while True loop of get_rollback_version, at line n of stdin
RECURSIVE rollback_loop(_, _)
rollback_loop(inp, n) ==
    IF Len(inp) < n THEN EOFError([i \in 1..n |-> "rollback"])
    ELSE LET entered_version == strip(inp[n])
         IN  IF entered_version # <<>>
             THEN Answer(entered_version, [i \in 1..n |-> "rollback"])
             ELSE rollback_loop(inp, n + 1)

\* get_rollback_version reading the key "current_version"
get_rollback_version_current(c, inp) ==
    LET previous_version == c.current_version
    IN  IF Truthy(previous_version) THEN Answer(previous_version, <<>>)
        ELSE rollback_loop(inp, 1)

\* get_rollback_version(config)
get_rollback_version(c, inp) ==
    LET previous_version == c.previous_version
    IN  IF Truthy(previous_version) THEN Answer(previous_version, <<>>)
        ELSE rollback_loop(inp, 1)


---------------------------------------------------------------------------
(* cleanup(zip_path, keep).  The file system's answers to the deletions of *)
(* one artifact are a script: `denied` PermissionErrors in a row, and then *)
(* either success or an OSError that is no PermissionError.                *)

\* for attempt in range(5)
MaxAttempts == 5

Scripts == [denied : 0..MaxDenied, then : {"ok", "OSError"}]

\* the scripts of a run: answered at the first attempt, or denied at every one (a
\* run keeps no count of the attempts, so the scripts between add no outcome)
RunScripts == {s \in Scripts : s.denied \in {0, MaxAttempts}}

\* if zip_path and not keep and zip_path.exists()
zip_removal_wanted(path, keep, exists) == path # None /\ ~keep /\ exists

\* for attempt in range(5): whether an attempt follows n failed ones
in_range(n) == n < MaxAttempts

\* one for/else loop of cleanup, n attempts having failed with PermissionError
RECURSIVE retry_loop(_, _)
retry_loop(script, n) ==
    IF ~in_range(n) THEN [removed |-> FALSE, attempts |-> n, raised |-> "none"]
    ELSE IF n < script.denied THEN retry_loop(script, n + 1)
    ELSE IF script.then = "ok"
         THEN [removed |-> TRUE, attempts |-> n + 1, raised |-> "none"]
         ELSE [removed |-> FALSE, attempts |-> n + 1, raised |-> script.then]

NotTried == [removed |-> FALSE, attempts |-> 0, raised |-> "none"]

\* cleanup(zip_path, keep), given what exists and the file system's answers
cleanup(path, keep, zip_there, temp_there, fs) ==
    LET z == IF zip_removal_wanted(path, keep, zip_there)
             THEN retry_loop(fs.zip, 0) ELSE NotTried
        t == IF z.raised = "none" /\ temp_there THEN retry_loop(fs.temp, 0) ELSE NotTried
    IN  [zip |-> z, temp |-> t,
         zip_exists |-> zip_there /\ ~z.removed,
         temp_exists |-> temp_there /\ ~t.removed,
         raised |-> IF z.raised # "none" THEN z.raised ELSE t.raised]

\* what cleanup prints, in order
cleanup_log(r) ==
    (IF r.zip.removed THEN <<"removed_zip">>
     ELSE IF r.zip.attempts > 0 /\ r.zip.raised = "none" THEN <<"failed_zip">> ELSE <<>>)
    \o (IF r.temp.removed THEN <<"removed_temp">>
        ELSE IF r.temp.attempts > 0 /\ r.temp.raised = "none" THEN <<"failed_temp">>
        ELSE <<>>)

---------------------------------------------------------------------------
(* The run: main() and nero(args), one action per step of nero's body. *)

NoArgs ==
    [dry_run |-> FALSE, download_only |-> FALSE, version |-> None, rollback |-> FALSE,
     keep |-> FALSE, list_versions |-> FALSE, check |-> FALSE, update_config |-> FALSE]

\* the namespaces parse_args() can return
Namespaces ==
    [dry_run : BOOLEAN, download_only : BOOLEAN, version : {None} \cup Versions,
     rollback : BOOLEAN, keep : BOOLEAN, list_versions : BOOLEAN, check : BOOLEAN,
     update_config : BOOLEAN]

NoCall == [by |-> "none", latest |-> None, result |-> None]

NoUnit == [fn |-> "none"]

AtRest ==
    /\ argv = NoArgs /\ args = NoArgs /\ config = DefaultConfig /\ log = <<>>
    /\ prompts = <<>> /\ inputs = <<>> /\ resolved = NoCall /\ zip_path = None
    /\ zip_exists = FALSE /\ temp_exists = FALSE /\ raised = "none"
    /\ saved = DefaultConfig /\ ret = NoUnit

Init ==
    /\ CONFIG_FILE = NoFile /\ before = NoFile
    /\ pc = "idle"
    /\ AtRest
    /\ call = NoUnit

\* an exception leaves the try body for the handler
Raise(e) ==
    /\ raised' = e
    /\ pc' = "except"

\* main(): parse_args() and the call of nero
Main ==
    /\ pc = "idle"
    /\ \E a \in Namespaces : argv' = a /\ args' = a
    /\ before' = CONFIG_FILE
    /\ pc' = "python"
    /\ UNCHANGED <<CONFIG_FILE, config, log, prompts, inputs, resolved, zip_path,
                   zip_exists, temp_exists, raised, saved, call, ret>>

\* load_shell_environment(); check_python_version(); an unsuitable interpreter
\* reads args.use_pyenv, which main()'s parser does not define
CheckPython ==
    /\ pc = "python"
    /\ \/ pc' = "load" /\ UNCHANGED raised
       \/ Raise("AttributeError")
    /\ UNCHANGED <<CONFIG_FILE, argv, args, config, log, prompts, inputs, resolved,
                   zip_path, zip_exists, temp_exists, before, saved, call, ret>>

\* config = load_config()
LoadConfig ==
    /\ pc = "load"
    /\ \/ config' = load_config(CONFIG_FILE) /\ pc' = "check" /\ UNCHANGED raised
       \/ Raise("OSError") /\ UNCHANGED config
    /\ UNCHANGED <<CONFIG_FILE, argv, args, log, prompts, inputs, resolved,
                   zip_path, zip_exists, temp_exists, before, saved, call, ret>>

\* the lines a call read from inp
Read(r, inp) == SubSeq(inp, 1, IF r.eof THEN Len(r.asked) - 1 ELSE Len(r.asked))

\* what a resolver call leaves behind: the questions, the lines read, the call
Asked(by, latest, r, inp) ==
    /\ prompts' = prompts \o r.asked
    /\ inputs' = inputs \o Read(r, inp)
    /\ resolved' = [by |-> by, latest |-> latest, result |-> r.result]

\* if args.check: action_result = check_and_display_config(config) ...
Check ==
    /\ pc = "check"
    /\ \/ /\ ~args.check
          /\ pc' = "rollback"
          /\ UNCHANGED <<args, log, prompts, inputs, resolved, raised>>
       \/ /\ args.check
          /\ Raise("URLError")
          /\ UNCHANGED <<args, log, prompts, inputs, resolved>>
       \/ /\ args.check
          /\ \E tag \in Tags, inp \in Stdin(AnswerLines) :
                LET latest == get_latest_version(tag)
                    r == check_and_display_config(config, latest, inp)
                IN  /\ Asked("check_and_display_config", latest, r, inp)
                    /\ IF r.eof
                       THEN Raise("EOFError") /\ UNCHANGED <<args, log>>
                       ELSE IF r.result = None
                       THEN /\ log' = Append(log, "no_action")
                            /\ pc' = "finally"
                            /\ UNCHANGED <<args, raised>>
                       ELSE /\ args' = [args EXCEPT !.version = r.result]
                            /\ pc' = "rollback"
                            /\ UNCHANGED <<log, raised>>
    /\ UNCHANGED <<CONFIG_FILE, argv, config, zip_path, zip_exists, temp_exists,
                   before, saved, call, ret>>

\* if args.rollback: args.version = get_rollback_version(config)
Rollback ==
    /\ pc = "rollback"
    /\ \/ /\ ~args.rollback
          /\ pc' = "list"
          /\ UNCHANGED <<args, prompts, inputs, raised>>
       \/ /\ args.rollback
          /\ \E inp \in Stdin(VersionLines) :
                LET r == get_rollback_version(config, inp)
                IN  /\ prompts' = prompts \o r.asked
                    /\ inputs' = inputs \o Read(r, inp)
                    /\ IF r.eof
                       THEN Raise("EOFError") /\ UNCHANGED args
                       ELSE /\ args' = [args EXCEPT !.version = r.result]
                            /\ pc' = "list"
                            /\ UNCHANGED raised
    /\ UNCHANGED <<CONFIG_FILE, argv, config, log, resolved, zip_path, zip_exists,
                   temp_exists, before, saved, call, ret>>

\* if args.list_versions: display_versions(); return
ListVersions ==
    /\ pc = "list"
    /\ \/ /\ ~args.list_versions
          /\ pc' = "resolve"
          /\ UNCHANGED <<log, raised>>
       \/ /\ args.list_versions
          /\ \/ log' = Append(log, "versions") /\ pc' = "finally" /\ UNCHANGED raised
             \/ Raise("URLError") /\ UNCHANGED log
    /\ UNCHANGED <<CONFIG_FILE, argv, args, config, prompts, inputs, resolved,
                   zip_path, zip_exists, temp_exists, before, saved, call, ret>>

\* if not args.version: action_result = check_for_updates(...) ...
Resolve ==
    /\ pc = "resolve"
    /\ \/ /\ Truthy(args.version)
          /\ pc' = "update_config"
          /\ UNCHANGED <<args, prompts, inputs, resolved, raised>>
       \/ /\ ~Truthy(args.version)
          /\ Raise("URLError")
          /\ UNCHANGED <<args, prompts, inputs, resolved>>
       \/ /\ ~Truthy(args.version)
          /\ \E tag \in Tags, inp \in Stdin(AnswerLines) :
                LET latest == get_latest_version(tag)
                    r == check_for_updates(config.current_version, latest, inp)
                IN  /\ Asked("check_for_updates", latest, r, inp)
                    /\ IF r.eof
                       THEN Raise("EOFError") /\ UNCHANGED args
                       ELSE IF r.result = None \/ r.result = <<>>
                       THEN pc' = "finally" /\ UNCHANGED <<args, raised>>
                       ELSE /\ args' = [args EXCEPT !.version = r.result]
                            /\ pc' = "update_config"
                            /\ UNCHANGED raised
    /\ UNCHANGED <<CONFIG_FILE, argv, config, log, zip_path, zip_exists, temp_exists,
                   before, saved, call, ret>>

\* update_config(version, dry_run): load, set the three fields, save
WriteRecord(version) ==
    \E now \in Times :
        LET c == update_config(CONFIG_FILE, version, now)
        IN  /\ saved' = IF args.dry_run THEN saved ELSE c
            /\ CONFIG_FILE' = save_config(CONFIG_FILE, c, args.dry_run)
            /\ log' = Append(log, IF args.dry_run THEN "dry_save" ELSE "save_config")

\* UpdateConfigOnly without its return: the run goes on to the download
UpdateConfigOnly_falls_through ==
    /\ pc = "update_config"
    /\ \/ /\ ~args.update_config
          /\ UNCHANGED <<CONFIG_FILE, log, saved>>
       \/ /\ args.update_config
          /\ \E tag \in Tags :
                WriteRecord(IF Truthy(args.version) THEN args.version
                            ELSE get_latest_version(tag))
    /\ pc' = "permissions"
    /\ UNCHANGED <<argv, args, config, prompts, inputs, resolved, zip_path,
                   zip_exists, temp_exists, raised, before, call, ret>>

\* if args.update_config: update_config(args.version or get_latest_version(), ...)
UpdateConfigOnly ==
    /\ pc = "update_config"
    /\ \/ /\ ~args.update_config
          /\ pc' = "permissions"
          /\ UNCHANGED <<CONFIG_FILE, log, raised, saved>>
       \/ /\ args.update_config
          /\ \E tag \in Tags :
                WriteRecord(IF Truthy(args.version) THEN args.version
                            ELSE get_latest_version(tag))
          /\ pc' = "finally"
          /\ UNCHANGED raised
       \/ /\ args.update_config
          /\ Raise("OSError")
          /\ UNCHANGED <<CONFIG_FILE, log, saved>>
    /\ UNCHANGED <<argv, args, config, prompts, inputs, resolved, zip_path,
                   zip_exists, temp_exists, before, call, ret>>

\* if not check_directory_permissions(download_dir): return
\* zip_path = download_dir / zip_filename; a file may already be there
Permissions ==
    /\ pc = "permissions"
    /\ \/ /\ log' = Append(log, "no_permission")
          /\ pc' = "finally"
          /\ UNCHANGED <<zip_path, zip_exists>>
       \/ /\ zip_path' = args.version
          /\ zip_exists' \in BOOLEAN
          /\ pc' = "download"
          /\ UNCHANGED log
    /\ UNCHANGED <<CONFIG_FILE, argv, args, config, prompts, inputs, resolved,
                   temp_exists, raised, before, saved, call, ret>>

\* Download without the test of args.download_only
Download_ignores_download_only ==
    /\ pc = "download"
    /\ \/ /\ args.dry_run
          /\ log' = Append(log, "dry_download")
          /\ pc' = "extract"
          /\ UNCHANGED <<zip_exists, raised>>
       \/ /\ ~args.dry_run
          /\ log' = Append(log, "download")
          /\ zip_exists' = TRUE
          /\ pc' = "extract"
          /\ UNCHANGED raised
       \/ /\ ~args.dry_run
          /\ zip_exists' \in {zip_exists, TRUE}
          /\ Raise("URLError")
          /\ UNCHANGED log
    /\ UNCHANGED <<CONFIG_FILE, argv, args, config, prompts, inputs, resolved,
                   zip_path, temp_exists, before, saved, call, ret>>

\* download_file(download_url, zip_path, args.dry_run); if args.download_only: return
Download ==
    /\ pc = "download"
    /\ \/ /\ args.dry_run
          /\ log' = Append(log, "dry_download")
          /\ pc' = IF args.download_only THEN "finally" ELSE "extract"
          /\ UNCHANGED <<zip_exists, raised>>
       \/ /\ ~args.dry_run
          /\ log' = Append(log, "download")
          /\ zip_exists' = TRUE
          /\ pc' = IF args.download_only THEN "finally" ELSE "extract"
          /\ UNCHANGED raised
       \/ /\ ~args.dry_run
          /\ zip_exists' \in {zip_exists, TRUE}
          /\ Raise("URLError")
          /\ UNCHANGED log
    /\ UNCHANGED <<CONFIG_FILE, argv, args, config, prompts, inputs, resolved,
                   zip_path, temp_exists, before, saved, call, ret>>

\* with tempfile.TemporaryDirectory(): run_command(unzip ...)
Extract ==
    /\ pc = "extract"
    /\ \/ /\ args.dry_run
          /\ log' = Append(log, "dry_extract")
          /\ pc' = "install"
          /\ UNCHANGED raised
       \/ /\ ~args.dry_run
          /\ log' = Append(log, "extract")
          /\ pc' = "install"
          /\ UNCHANGED raised
       \/ /\ ~args.dry_run
          /\ Raise("CalledProcessError")
          /\ UNCHANGED log
    /\ UNCHANGED <<CONFIG_FILE, argv, args, config, prompts, inputs, resolved,
                   zip_path, zip_exists, temp_exists, before, saved, call, ret>>

\* Install with the script's exit status ignored (subprocess.run without check=True)
Install_unchecked ==
    /\ pc = "install"
    /\ \/ /\ args.dry_run
          /\ log' = Append(log, "dry_install")
       \/ /\ ~args.dry_run
          /\ log' \in {Append(log, "install"), Append(log, "install_failed")}
    /\ pc' = "persist"
    /\ UNCHANGED <<CONFIG_FILE, argv, args, config, prompts, inputs, resolved,
                   zip_path, zip_exists, temp_exists, raised, before, saved, call, ret>>

\* os.chdir(installer_dir); run_command(install script); the with block ends
Install ==
    /\ pc = "install"
    /\ \/ /\ args.dry_run
          /\ log' = Append(log, "dry_install")
          /\ pc' = "persist"
          /\ UNCHANGED raised
       \/ /\ ~args.dry_run
          /\ log' = Append(log, "install")
          /\ pc' = "persist"
          /\ UNCHANGED raised
       \/ /\ ~args.dry_run
          /\ Raise("CalledProcessError")
          /\ UNCHANGED log
    /\ UNCHANGED <<CONFIG_FILE, argv, args, config, prompts, inputs, resolved,
                   zip_path, zip_exists, temp_exists, before, saved, call, ret>>

\* update_config(args.version, args.dry_run)
Persist ==
    /\ pc = "persist"
    /\ \/ /\ WriteRecord(args.version)
          /\ pc' = "finally"
          /\ UNCHANGED raised
       \/ /\ Raise("OSError")
          /\ UNCHANGED <<CONFIG_FILE, log, saved>>
    /\ UNCHANGED <<argv, args, config, prompts, inputs, resolved, zip_path,
                   zip_exists, temp_exists, before, call, ret>>

\* except Exception as e: print(...)
Except ==
    /\ pc = "except"
    /\ log' = Append(log, "error")
    /\ raised' = "none"
    /\ pc' = "finally"
    /\ UNCHANGED <<CONFIG_FILE, argv, args, config, prompts, inputs, resolved,
                   zip_path, zip_exists, temp_exists, before, saved, call, ret>>

\* finally: if zip_path is not None: cleanup(zip_path, args.keep)
\* an exception cleanup raises leaves nero: the finally clause has no handler
Finally ==
    /\ pc = "finally"
    /\ \/ /\ zip_path = None
          /\ UNCHANGED <<log, zip_exists, temp_exists, raised>>
       \/ /\ zip_path # None
          /\ \E temp_there \in BOOLEAN, fs \in [zip : RunScripts, temp : RunScripts] :
                LET r == cleanup(zip_path, args.keep, zip_exists, temp_there, fs)
                IN  /\ zip_exists' = r.zip_exists
                    /\ temp_exists' = r.temp_exists
                    /\ raised' = r.raised
                    /\ log' = log \o <<"cleanup">> \o cleanup_log(r)
    /\ pc' = "done"
    /\ UNCHANGED <<CONFIG_FILE, argv, args, config, prompts, inputs, resolved,
                   zip_path, before, saved, call, ret>>

\* nero has returned, or an exception has left it: the process ends
Exit ==
    /\ pc = "done"
    /\ pc' = "idle"
    /\ argv' = NoArgs /\ args' = NoArgs /\ config' = DefaultConfig /\ log' = <<>>
    /\ prompts' = <<>> /\ inputs' = <<>> /\ resolved' = NoCall /\ zip_path' = None
    /\ zip_exists' = FALSE /\ temp_exists' = FALSE /\ raised' = "none"
    /\ saved' = DefaultConfig
    /\ before' = CONFIG_FILE
    /\ UNCHANGED <<CONFIG_FILE, call, ret>>

Next ==
    \/ Main \/ CheckPython \/ LoadConfig \/ Check \/ Rollback \/ ListVersions
    \/ Resolve \/ UpdateConfigOnly \/ Permissions \/ Download \/ Extract \/ Install
    \/ Persist \/ Except \/ Finally \/ Exit

Spec == Init /\ [][Next]_vars
---------------------------------------------------------------------------
(* The unit drivers: each draws the arguments of a call from bounded sets  *)
(* and calls functions of cli.py on them, as the tests of nero_test.py do. *)

UnitFrame ==
    UNCHANGED <<argv, args, config, log, prompts, inputs, resolved, zip_path,
                zip_exists, temp_exists, raised, before, call>>

\* the characters of the strings the record driver stores
Alphabet == {"a", "\"", "\\"}

Strings == UNION {[1..n -> Alphabet] : n \in 0..MaxStrLen}

\* a field of a record: None or a string
Values == {None, <<"n", "u", "l", "l">>, <<" ", "\n">>} \cup Strings

FewValues == {None, <<>>, <<"\"", ",">>}

Records ==
    [current_version : Values, previous_version : FewValues, last_update : FewValues]

\* the record file before the test: absent, or written by an earlier save_config
FilesBefore ==
    {NoFile} \cup {json_dump([DefaultConfig EXCEPT !.current_version = v]) : v \in Versions}

InitConfig ==
    /\ CONFIG_FILE \in FilesBefore /\ before = CONFIG_FILE
    /\ pc = "unit"
    /\ AtRest
    /\ call \in [fn : {"save_config"}, config : Records, dry_run : BOOLEAN]

\* save_config(c, dry_run)
CallSaveConfig ==
    /\ pc = "unit"
    /\ CONFIG_FILE' = save_config(CONFIG_FILE, call.config, call.dry_run)
    /\ saved' = IF call.dry_run THEN saved ELSE call.config
    /\ ret' = [fn |-> "save_config"]
    /\ pc' = "saved"
    /\ UnitFrame

\* load_config()
CallLoadConfig ==
    /\ pc \in {"unit", "saved"}
    /\ ret' = [fn |-> "load_config", value |-> load_config(CONFIG_FILE)]
    /\ pc' = IF pc = "saved" THEN "saved_loaded" ELSE "loaded"
    /\ UNCHANGED <<CONFIG_FILE, saved>>
    /\ UnitFrame

NextConfig == CallSaveConfig \/ CallLoadConfig

SpecConfig == InitConfig /\ [][NextConfig]_vars

InitCleanup ==
    /\ CONFIG_FILE = NoFile /\ before = NoFile
    /\ pc = "unit"
    /\ AtRest
    /\ call \in [fn : {"cleanup"}, zip_path : {None} \cup Versions, keep : BOOLEAN,
                 zip_exists : BOOLEAN, temp_exists : BOOLEAN,
                 fs : [zip : Scripts, temp : Scripts]]

\* cleanup(zip_path, keep)
CallCleanup ==
    /\ pc = "unit"
    /\ ret' = [fn |-> "cleanup",
               value |-> cleanup(call.zip_path, call.keep, call.zip_exists,
                                 call.temp_exists, call.fs)]
    /\ pc' = "returned"
    /\ UNCHANGED <<CONFIG_FILE, saved>>
    /\ UnitFrame

NextCleanup == CallCleanup

SpecCleanup == InitCleanup /\ [][NextCleanup]_vars

\* what a tester may type: the answers in both cases, with and without blanks
TestLines ==
    {<<"u">>, <<"U">>, <<" ", "u", " ">>, <<"d">>, <<"D">>, <<"d", " ">>, <<"c">>,
     <<"u", "p">>, <<"y">>, <<"Y">>, <<" ", "y">>, <<"n">>, <<"y", "e", "s">>,
     <<>>, <<" ">>, <<"1">>, <<" ", "2", " ">>, <<"2">>}

TestStdin == UNION {[1..n -> TestLines] : n \in 0..MaxIn}

TestConfigs ==
    [current_version : {None, <<>>} \cup Versions,
     previous_version : {None, <<>>} \cup Versions,
     last_update : {None}]

InitResolve ==
    /\ CONFIG_FILE = NoFile /\ before = NoFile
    /\ pc = "unit"
    /\ AtRest
    /\ call \in [fn : {"resolve"}, config : TestConfigs,
                 latest : {get_latest_version(tag) : tag \in Tags}, stdin : TestStdin]

\* check_and_display_config(config)
CallCheckAndDisplayConfig ==
    /\ pc = "unit"
    /\ ret' = [fn |-> "check_and_display_config",
               value |-> check_and_display_config(call.config, call.latest, call.stdin)]
    /\ pc' = "returned"
    /\ UNCHANGED <<CONFIG_FILE, saved>>
    /\ UnitFrame

\* check_for_updates(current_version)
CallCheckForUpdates ==
    /\ pc = "unit"
    /\ ret' = [fn |-> "check_for_updates",
               value |-> check_for_updates(call.config.current_version, call.latest,
                                           call.stdin)]
    /\ pc' = "returned"
    /\ UNCHANGED <<CONFIG_FILE, saved>>
    /\ UnitFrame

\* get_rollback_version(config)
CallGetRollbackVersion ==
    /\ pc = "unit"
    /\ ret' = [fn |-> "get_rollback_version",
               value |-> get_rollback_version(call.config, call.stdin)]
    /\ pc' = "returned"
    /\ UNCHANGED <<CONFIG_FILE, saved>>
    /\ UnitFrame

NextResolve == CallCheckAndDisplayConfig \/ CallCheckForUpdates \/ CallGetRollbackVersion

SpecResolve == InitResolve /\ [][NextResolve]_vars

---------------------------------------------------------------------------
(* The claims. *)

InLog(e) == \E i \in 1..Len(log) : log[i] = e

\* the steps of a run that download, extract, install or write (dry or not)
Effects ==
    {"download", "dry_download", "extract", "dry_extract", "install", "dry_install",
     "save_config", "dry_save"}

NoEffect == \A i \in 1..Len(log) : log[i] \notin Effects

\* neither --version nor --rollback was given
NoVersionFlag == argv.version = None /\ ~argv.rollback

\* a typed line without its blanks
Unblanked(line) == SelectSeq(line, LAMBDA ch : ch # " ")

UpgradeLines == {<<"u">>, <<"U">>, <<" ", "u", " ">>, <<" ", "U">>}
DowngradeLines == {<<"d">>, <<"D">>, <<"d", " ">>, <<"D", " ">>}
YesLines == {<<"y">>, <<"Y">>, <<" ", "y">>, <<" ", "Y">>}

\* C1: every write of the record that is no dry run leaves previous_version equal
\* to the current_version the file held just before the write (None when there was
\* no file), and current_version equal to the version update_config was given.
C1_PreviousIsPrior ==
    [][(Len(log') = Len(log) + 1 /\ Last(log') = "save_config")
         => /\ load_config(CONFIG_FILE').previous_version
                 = load_config(CONFIG_FILE).current_version
            /\ load_config(CONFIG_FILE').current_version = args.version]_vars

\* a run has written the version the record already held as current
C1_Witness ==
    /\ InLog("save_config")
    /\ before # NoFile
    /\ load_config(CONFIG_FILE).previous_version = load_config(before).current_version
    /\ load_config(CONFIG_FILE).current_version = load_config(before).current_version

\* C2: in an install run (no --update-config) the record is written only after the
\* download, the extraction and the install script, in that order and none of them
\* failed, and before cleanup; a run with a failed step, or one that returned
\* before the install script, leaves the record file as it was before the run.
C2_WriteOnlyAfterInstall ==
    ~argv.update_config =>
        /\ \A i \in 1..Len(log) :
              log[i] = "save_config" =>
                 /\ \E a, b, c \in 1..(i - 1) :
                       /\ a < b /\ b < c
                       /\ log[a] = "download" /\ log[b] = "extract" /\ log[c] = "install"
                 /\ \A j \in 1..(i - 1) : log[j] \notin {"error", "cleanup"}
        /\ CONFIG_FILE # before => InLog("save_config")
        /\ (InLog("error") \/ (pc = "done" /\ ~InLog("install"))) => CONFIG_FILE = before

\* an install run has written the record and then cleaned up
C2_Witness ==
    /\ pc = "done" /\ ~argv.update_config
    /\ InLog("save_config") /\ Last(log) # "save_config" /\ InLog("cleanup")
    /\ CONFIG_FILE # before

\* C3: with a current version stored that differs from the latest, each resolver
\* returns the latest version on an upgrade answer, the typed version on a
\* downgrade answer followed by a version that is not blank, and None otherwise
\* (another answer, or a blank version).
C3_ResolverDecision ==
    (/\ pc = "returned"
     /\ ret.fn \in {"check_and_display_config", "check_for_updates"}
     /\ call.config.current_version \in Versions
     /\ call.config.current_version # call.latest
     /\ ~ret.value.eof)
    => LET choice == call.stdin[1]
           result == ret.value.result
       IN  /\ choice \in UpgradeLines => result = call.latest
           /\ choice \in DowngradeLines =>
                 result = IF Unblanked(call.stdin[2]) # <<>>
                          THEN Unblanked(call.stdin[2]) ELSE None
           /\ choice \notin UpgradeLines \cup DowngradeLines => result = None

\* check_for_updates has returned the version typed, blanks around it, after "D"
C3_Witness ==
    /\ pc = "returned" /\ ret.fn = "check_for_updates"
    /\ call.config.current_version = <<"1">> /\ call.latest = <<"2">>
    /\ call.stdin = <<<<"D">>, <<" ", "2", " ">>>>
    /\ ret.value.result = <<"2">>

C5_FreshInstallAsksOnce ==
    (/\ NoVersionFlag
     /\ resolved.by # "none"
     /\ ~Truthy(config.current_version))
    => /\ prompts = <<"yn">>
       /\ inputs # <<>> =>
             resolved.result = IF inputs[1] \in YesLines THEN resolved.latest ELSE None
       /\ resolved.result = None => NoEffect /\ zip_path = None /\ CONFIG_FILE = before

\* a first install after the answer " Y" has written the latest version
C5_Witness ==
    /\ pc = "done" /\ NoVersionFlag /\ before = NoFile
    /\ resolved.by = "check_for_updates"
    /\ inputs = <<<<" ", "Y">>>>
    /\ InLog("save_config")
    /\ load_config(CONFIG_FILE).current_version = resolved.latest

\* the steps of nero between the version selection and the handler
Selected == {"list", "resolve", "update_config", "permissions", "download", "extract",
             "install", "persist"}

\* the target of a rollback once get_rollback_version has returned
RollbackTarget ==
    IF Truthy(config.previous_version)
    THEN /\ args.version = config.previous_version
         /\ \A i \in 1..Len(prompts) : prompts[i] # "rollback"
    ELSE /\ inputs # <<>> /\ prompts # <<>>
         /\ Last(prompts) = "rollback"
         /\ args.version = Unblanked(Last(inputs))
         /\ args.version # <<>>
         /\ \A i \in 1..(Len(inputs) - 1) :
               prompts[i] = "rollback" => Unblanked(inputs[i]) = <<>>

\* C6: with --rollback the target is the stored previous_version and nothing is
\* asked when it is known; otherwise the version is asked for until the answer is
\* not blank and that answer is the target; the upgrade/downgrade/cancel resolution
\* is not run.
C6_RollbackSkipsResolution ==
    argv.rollback =>
        /\ resolved.by = "none"
        /\ \A i \in 1..Len(prompts) : prompts[i] = "rollback"
        /\ Truthy(config.previous_version) => prompts = <<>>
        /\ pc \in Selected => RollbackTarget

\* C6 without --check: the part of the claim the code keeps
C6_WithoutCheck ==
    (argv.rollback /\ ~argv.check) =>
        /\ resolved.by = "none"
        /\ \A i \in 1..Len(prompts) : prompts[i] = "rollback"
        /\ Truthy(config.previous_version) => prompts = <<>>
        /\ pc \in Selected => RollbackTarget

\* C7: with --version V, whatever the record and the other flags, nothing is asked
\* and the version downloaded, installed or recorded is V.
C7_VersionBypassesResolution ==
    Truthy(argv.version) =>
        /\ prompts = <<>>
        /\ args.version = argv.version
        /\ zip_path # None => zip_path = argv.version
        /\ InLog("save_config") => load_config(CONFIG_FILE).current_version = argv.version

\* C7 with --version alone among --version, --rollback and --check
C7_WithoutRollbackAndCheck ==
    (Truthy(argv.version) /\ ~argv.rollback /\ ~argv.check) =>
        /\ prompts = <<>>
        /\ args.version = argv.version
        /\ zip_path # None => zip_path = argv.version
        /\ InLog("save_config") => load_config(CONFIG_FILE).current_version = argv.version

\* C8: load_config() after save_config(c) returns c, for every record c of strings
\* and None; load_config() without a file returns the defaults and creates no file.
C8_RoundTrip ==
    /\ (pc = "saved_loaded" /\ ~call.dry_run) => ret.value = call.config
    /\ (pc = "loaded" /\ before = NoFile) =>
          ret.value = DefaultConfig /\ CONFIG_FILE = NoFile

\* a record with a quote, a backslash and a None has come back from the file that
\* replaced an older one
C8_Witness ==
    /\ pc = "saved_loaded" /\ ~call.dry_run /\ before # NoFile
    /\ call.config.current_version = <<"\"", "\\">>
    /\ call.config.previous_version = None
    /\ ret.value = call.config

\* the script lets the deletion succeed at one of the attempts cleanup makes
Deletable(script) == script.then = "ok" /\ script.denied < MaxAttempts

\* C9: cleanup deletes the archive unless keep is set, and then never tries; it
\* always deletes the temp directory; a deletion denied is tried again, at most 5
\* times an artifact, and no more once it succeeded.
C9_CleanupRemovesBoth ==
    pc = "returned" =>
        LET r == ret.value
        IN  /\ call.keep => r.zip.attempts = 0 /\ r.zip_exists = call.zip_exists
            /\ (~call.keep /\ call.zip_path # None /\ call.zip_exists) =>
                  /\ r.zip.attempts >= 1
                  /\ Deletable(call.fs.zip) => ~r.zip_exists
            /\ call.temp_exists =>
                  /\ r.temp.attempts >= 1
                  /\ Deletable(call.fs.temp) => ~r.temp_exists
            /\ r.zip.attempts <= MaxAttempts /\ r.temp.attempts <= MaxAttempts
            /\ r.zip.removed => r.zip.attempts = call.fs.zip.denied + 1
            /\ r.temp.removed => r.temp.attempts = call.fs.temp.denied + 1

\* C9 when the deletion of the archive raises nothing but PermissionError
C9_UnlessZipDeletionRaises ==
    (pc = "returned" /\ ret.value.zip.raised = "none") =>
        LET r == ret.value
        IN  /\ call.keep => r.zip.attempts = 0 /\ r.zip_exists = call.zip_exists
            /\ (~call.keep /\ call.zip_path # None /\ call.zip_exists) =>
                  /\ r.zip.attempts >= 1
                  /\ Deletable(call.fs.zip) => ~r.zip_exists
            /\ call.temp_exists =>
                  /\ r.temp.attempts >= 1
                  /\ Deletable(call.fs.temp) => ~r.temp_exists
            /\ r.zip.attempts <= MaxAttempts /\ r.temp.attempts <= MaxAttempts
            /\ r.zip.removed => r.zip.attempts = call.fs.zip.denied + 1
            /\ r.temp.removed => r.temp.attempts = call.fs.temp.denied + 1

\* C10: whatever step of a run fails, cleanup included, the handler prints the
\* error and no exception leaves nero.
C10_NoExceptionEscapes ==
    pc = "done" => raised = "none"

\* C10 for the steps inside the try body: their exceptions reach the handler
C10_TryBodyIsCaught ==
    /\ pc = "except" => raised # "none"
    /\ (pc = "done" /\ raised # "none") => InLog("cleanup")
    /\ (pc \in {"finally", "done"} /\ ~InLog("cleanup")) => raised = "none"

\* the steps that change something outside the process: a download, a command run,
\* a write of the record, a deletion by cleanup
Changes == {"download", "extract", "install", "save_config", "removed_zip", "removed_temp"}

\* C11: a run with --dry-run changes nothing: the record file is the one before the
\* run, nothing is downloaded, no command is run, and neither an archive that was
\* already at zip_path nor the temp directory is deleted.
C11_DryRunChangesNothing ==
    argv.dry_run =>
        /\ CONFIG_FILE = before
        /\ \A i \in 1..Len(log) : log[i] \notin Changes

\* C11 up to cleanup: the steps of the try body change nothing in a dry run
C11_DryUntilCleanup ==
    argv.dry_run =>
        /\ CONFIG_FILE = before
        /\ \A i \in 1..Len(log) :
              log[i] \notin {"download", "extract", "install", "save_config"}

\* the version selection of the run has yielded a version and no step has failed
VersionSelected ==
    /\ pc = "done" /\ ~InLog("error") /\ ~argv.list_versions
    /\ resolved.by = "none" \/ Truthy(resolved.result)

\* C12 as stated, for the runs with --update-config and none of --check, --rollback
\* and --list-versions: nothing is downloaded, extracted or installed, and a run that
\* is no dry run and ends without an error has written the record, with the version
\* of --version when given and the resolved version otherwise.
C12_UpdateConfigWrites ==
    (argv.update_config /\ ~argv.check /\ ~argv.rollback /\ ~argv.list_versions) =>
        /\ \A i \in 1..Len(log) :
              log[i] \notin Effects \ {"save_config", "dry_save"}
        /\ (pc = "done" /\ ~argv.dry_run /\ ~InLog("error")) =>
              /\ InLog("save_config")
              /\ load_config(CONFIG_FILE).current_version
                    = IF Truthy(argv.version) THEN argv.version ELSE resolved.result

\* C12, amended: a run with --update-config downloads, extracts and installs
\* nothing and sets no zip_path; when its version selection yields a version and no
\* step fails, update_config is called once with that version (written unless
\* --dry-run), which is V for --version V without --rollback and --check; when the
\* resolver returns None or --list-versions is given the file is left as it was.
C12_UpdateConfigOnly ==
    argv.update_config =>
        /\ \A i \in 1..Len(log) :
              log[i] \notin Effects \ {"save_config", "dry_save"}
        /\ zip_path = None
        /\ InLog("save_config") =>
              /\ ~argv.dry_run
              /\ Truthy(args.version)
              /\ load_config(CONFIG_FILE).current_version = args.version
              /\ (Truthy(argv.version) /\ ~argv.rollback /\ ~argv.check) =>
                    args.version = argv.version
              /\ (~Truthy(argv.version) /\ ~argv.rollback) => args.version = resolved.result
        /\ VersionSelected =>
              IF argv.dry_run THEN InLog("dry_save") /\ CONFIG_FILE = before
              ELSE InLog("save_config")
        /\ (pc = "done" /\ ~VersionSelected) => CONFIG_FILE = before

\* a run with --update-config alone has written the version typed after "d"
C12_Witness ==
    /\ pc = "done" /\ argv.update_config /\ NoVersionFlag /\ ~argv.check /\ ~argv.dry_run
    /\ resolved.by = "check_for_updates"
    /\ resolved.result # resolved.latest
    /\ InLog("save_config") /\ ~InLog("cleanup")
    /\ load_config(CONFIG_FILE).current_version = resolved.result

\* what cleanup prints
CleanupEntries == {"cleanup", "removed_zip", "failed_zip", "removed_temp", "failed_temp"}

FileSaved ==
    /\ argv.download_only /\ ~argv.dry_run
    /\ \E i \in 1..Len(log) : log[i] = "download"

\* C14: after a run with --download-only that printed "File saved to", the archive
\* is at zip_path when the run ends, with --keep and without.
C14_SavedFileRemains ==
    (pc = "done" /\ FileSaved) => zip_exists

\* C14 with --keep: cleanup leaves the archive where it was saved
C14_WithKeep ==
    (pc = "done" /\ FileSaved /\ argv.keep) => zip_exists

\* the record file after one more rollback of the record in `file`, written at `now`:
\* args.version = get_rollback_version(config); update_config(args.version)
RolledBack(file, now) ==
    LET target == get_rollback_version(load_config(file), <<>>).result
    IN  save_config(file, update_config(file, target, now), FALSE)

\* a run with --rollback has written the record, the previous_version being known
RollbackDone ==
    /\ pc = "done" /\ argv.rollback /\ InLog("save_config")
    /\ before # NoFile
    /\ Truthy(load_config(before).previous_version)

\* C15: a rollback that wrote the record, previous_version known, has exchanged
\* current_version and previous_version; a second rollback asks nothing and gives
\* the pair of before the first back.
C15_RollbackReverts ==
    RollbackDone =>
        LET was == load_config(before)
            is == load_config(CONFIG_FILE)
        IN  /\ is.current_version = was.previous_version
            /\ is.previous_version = was.current_version
            /\ \A i \in 1..Len(prompts) : prompts[i] # "rollback"
            /\ get_rollback_version(is, <<>>).asked = <<>>
            /\ ~get_rollback_version(is, <<>>).eof
            /\ \A now \in Times :
                  LET again == load_config(RolledBack(CONFIG_FILE, now))
                  IN  /\ again.current_version = was.current_version
                      /\ again.previous_version = was.previous_version

\* a rollback install from (2, 1) has left (1, 2)
C15_Witness ==
    /\ RollbackDone /\ InLog("install")
    /\ load_config(before).current_version = <<"2">>
    /\ load_config(before).previous_version = <<"1">>
    /\ load_config(CONFIG_FILE).current_version = <<"1">>
    /\ load_config(CONFIG_FILE).previous_version = <<"2">>

\* C16: called on the same record, latest version and input, check_and_display_config
\* and check_for_updates ask the same questions, read the same lines and return the
\* same version or None (or both meet the end of input at the same question).
C16_ResolversAgree ==
    pc = "returned" =>
        /\ ret.fn = "check_and_display_config" =>
              ret.value = check_for_updates(call.config.current_version, call.latest,
                                            call.stdin)
        /\ ret.fn = "check_for_updates" =>
              ret.value = check_and_display_config(call.config, call.latest, call.stdin)

\* check_and_display_config has returned None for a blank version typed after "d",
\* where check_for_updates falls through to its last return
C16_Witness ==
    /\ pc = "returned" /\ ret.fn = "check_and_display_config"
    /\ call.config.current_version = <<"1">> /\ call.latest = <<"2">>
    /\ call.stdin = <<<<"d">>, <<" ">>>>
    /\ ret.value.result = None /\ ret.value.asked = <<"udc", "downgrade">>

=============================================================================
